---- MODULE Spec2Model ----
(***************************************************************************)
(* Model of the CI timing report pipeline: reports/main.py (main variant)  *)
(* and reports/preliminary_study/main.py (preliminary variant).            *)
(*                                                                         *)
(* Text is modelled structurally.  A string that the code splits or        *)
(* matches on "_" is the sequence of its "_"-separated segments            *)
(* ("zenn_build" is <<"zenn", "build">>); a run_id cell is the sequence of *)
(* its pieces, a double quote being the piece DQ.  A float is an exact     *)
(* rational [k |-> "num", n, d], NaN, or None; a formatted "%.3f" field is *)
(* the integer number of thousandths, "nan", or blank.                     *)
(***************************************************************************)
EXTENDS Integers, Sequences, FiniteSets, TLC

\* Longest step file of the main and of the preliminary pipeline.
MaxSteps == 3
\* Longest target, tool or phase component (in "_"-separated segments) of a
\* job name handed to parse_job.
MaxSegs == 2

(***************************************************************************)
(* Sequences                                                               *)
(***************************************************************************)
Range(s) == {s[i] : i \in 1..Len(s)}

RECURSIVE SeqsUpTo(_, _)
SeqsUpTo(S, n) ==
  IF n = 0 THEN {<<>>}
  ELSE LET shorter == SeqsUpTo(S, n - 1)
       IN shorter \cup {Append(s, x) : s \in {t \in shorter : Len(t) = n - 1}, x \in S}

\* The sequence s with x put in front of position p (1..Len(s)+1).
InsertAt(s, p, x) == SubSeq(s, 1, p - 1) \o <<x>> \o SubSeq(s, p, Len(s))

(***************************************************************************)
(* Floats: exact rationals in lowest terms, NaN, None                      *)
(***************************************************************************)
Abs(x) == IF x < 0 THEN -x ELSE x

RECURSIVE GCD(_, _)
GCD(a, b) == IF b = 0 THEN a ELSE GCD(b, a % b)

Num(n, d) ==
  LET g == GCD(Abs(n), d)
  IN [k |-> "num", n |-> n \div g, d |-> d \div g]
NaN == [k |-> "nan", n |-> 0, d |-> 1]
NoneV == [k |-> "none", n |-> 0, d |-> 1]
\* float(s) raised ValueError
ValueError == [k |-> "err", n |-> 0, d |-> 1]

IsNaN(v) == v.k = "nan"
\* isinstance(v, float); [k |-> "sqrt", n, d] is the square root of n / d > 0
IsFloat(v) == v.k \in {"num", "nan", "sqrt"}
\* Python truthiness of an Optional[float]: None and 0.0 are false, NaN is true.
Truthy(v) == v.k \in {"nan", "sqrt"} \/ (v.k = "num" /\ v.n # 0)
\* v > 0 and v <= 0; every comparison with NaN is false.
GtZero(v) == v.k = "num" /\ v.n > 0
LeZero(v) == v.k = "num" /\ v.n <= 0

FAdd(a, b) ==
  IF IsNaN(a) \/ IsNaN(b) THEN NaN ELSE Num(a.n * b.d + b.n * a.d, a.d * b.d)
\* a / b for b # 0 (the callers guard b; ZeroDivisionError is theirs to raise).
FDiv(a, b) ==
  IF IsNaN(a) \/ IsNaN(b) THEN NaN
  ELSE IF b.n < 0 THEN Num(-(a.n * b.d), a.d * (-b.n))
  ELSE Num(a.n * b.d, a.d * b.n)

FSub(a, b) ==
  IF IsNaN(a) \/ IsNaN(b) THEN NaN ELSE Num(a.n * b.d - b.n * a.d, a.d * b.d)
FMul(a, b) ==
  IF IsNaN(a) \/ IsNaN(b) THEN NaN ELSE Num(a.n * b.n, a.d * b.d)
\* sqrt(v) for v >= 0
FSqrt(v) ==
  IF IsNaN(v) THEN NaN
  ELSE IF v.n = 0 THEN Num(0, 1)
  ELSE [k |-> "sqrt", n |-> v.n, d |-> v.d]

RECURSIVE ISqrtIn(_, _, _)
\* The integer square root of x, known to lie in lo..hi.
ISqrtIn(x, lo, hi) ==
  IF lo = hi THEN lo
  ELSE LET mid == (lo + hi + 1) \div 2
       IN IF mid * mid <= x THEN ISqrtIn(x, mid, hi) ELSE ISqrtIn(x, lo, mid - 1)

RECURSIVE FSum(_)
FSum(xs) == IF xs = <<>> THEN Num(0, 1) ELSE FAdd(Head(xs), FSum(Tail(xs)))

\* float(s) on the duration cells that occur in the inputs.
ParseFloat(s) ==
  CASE s = "0" -> Num(0, 1)
    [] s = "-5" -> Num(-5, 1)
    [] s = "-3" -> Num(-3, 1)
    [] s = "1.0" -> Num(1, 1)
    [] s = "5.0" -> Num(5, 1)
    [] s = "7.0" -> Num(7, 1)
    [] s = "10.0" -> Num(10, 1)
    [] s = "20.0" -> Num(20, 1)
    [] s = "40.0" -> Num(40, 1)
    [] s = "100.0" -> Num(100, 1)
    [] s = "nan" -> NaN
    [] OTHER -> ValueError

\* n / d (n >= 0, d > 0) rounded to the nearest integer, ties to even.
RoundHalfEven(n, d) ==
  LET q == n \div d
      r == n % d
  IN IF 2 * r < d THEN q
     ELSE IF 2 * r > d THEN q + 1
     ELSE IF q % 2 = 0 THEN q ELSE q + 1

Blank == [k |-> "blank", m |-> 0]
\* f"{v:.3f}": the value in thousandths.
Fmt3(v) ==
  IF IsNaN(v) THEN [k |-> "nan", m |-> 0]
  ELSE IF v.k = "sqrt"
  THEN \* round(1000 * sqrt(n/d)) = (isqrt(floor(4000000 * n/d)) + 1) div 2
       LET y == 4000000 * (v.n \div v.d) + (4000000 * (v.n % v.d)) \div v.d
       IN [k |-> "dec", m |-> (ISqrtIn(y, 0, 46340) + 1) \div 2]
  ELSE IF v.n < 0 THEN [k |-> "dec", m |-> -RoundHalfEven(1000 * (-v.n), v.d)]
  ELSE [k |-> "dec", m |-> RoundHalfEven(1000 * v.n, v.d)]
\* float(field) of a field written by Fmt3 (the summary is read back for a chart).
ParseFmt3(f) ==
  IF f.k = "nan" THEN NaN ELSE IF f.k = "dec" THEN Num(f.m, 1000) ELSE ValueError

\* int(cell or 0) on the run_number cells that occur in the inputs; -1: ValueError.
ParseInt(s) ==
  CASE s = "" -> 0
    [] s = "2" -> 2
    [] s = "3" -> 3
    [] s = "4" -> 4
    [] s = "5" -> 5
    [] s = "6" -> 6
    [] s = "7" -> 7
    [] s = "8" -> 8
    [] s = "9" -> 9
    [] s = "10" -> 10
    [] OTHER -> -1

(***************************************************************************)
(* Strings: code points, comparison, quote stripping                       *)
(***************************************************************************)
DQ == "\""

RECURSIVE LStrip(_)
LStrip(s) == IF s # <<>> /\ Head(s) = DQ THEN LStrip(Tail(s)) ELSE s
RECURSIVE RStrip(_)
RStrip(s) == IF s # <<>> /\ s[Len(s)] = DQ THEN RStrip(SubSeq(s, 1, Len(s) - 1)) ELSE s
\* s.strip('"')
StripQuotes(s) == RStrip(LStrip(s))

\* The code points of the pieces of text that occur in sort keys.
Codes(a) ==
  CASE a = "" -> <<>>
    [] a = "build" -> <<98, 117, 105, 108, 100>>
    [] a = "zenn" -> <<122, 101, 110, 110>>
    [] a = "marp" -> <<109, 97, 114, 112>>
    [] a = "none" -> <<110, 111, 110, 101>>
    [] a = "cachix" -> <<99, 97, 99, 104, 105, 120>>
    [] a = "cachix-action" -> <<99, 97, 99, 104, 105, 120, 45, 97, 99, 116, 105, 111, 110>>
    [] a = "cache-nix-action" -> <<99, 97, 99, 104, 101, 45, 110, 105, 120, 45, 97, 99, 116, 105, 111, 110>>
    [] a = "magic-nix-cache" -> <<109, 97, 103, 105, 99, 45, 110, 105, 120, 45, 99, 97, 99, 104, 101>>
    [] a = "generate-cache" -> <<103, 101, 110, 101, 114, 97, 116, 101, 45, 99, 97, 99, 104, 101>>
    [] a = "use-cache" -> <<117, 115, 101, 45, 99, 97, 99, 104, 101>>
    [] a = "use" -> <<117, 115, 101>>
    [] a = "cache" -> <<99, 97, 99, 104, 101>>
    [] a = "cachetool" -> <<99, 97, 99, 104, 101, 116, 111, 111, 108>>
    [] a = "phase" -> <<112, 104, 97, 115, 101>>
    [] a = "build-zenn" -> <<98, 117, 105, 108, 100, 45, 122, 101, 110, 110>>
    [] a = "build-marp" -> <<98, 117, 105, 108, 100, 45, 109, 97, 114, 112>>

RECURSIVE JoinCodes(_, _)
\* The code points of sep.join(segs).
JoinCodes(segs, sep) ==
  IF segs = <<>> THEN <<>>
  ELSE IF Len(segs) = 1 THEN Codes(segs[1])
  ELSE Codes(segs[1]) \o <<sep>> \o JoinCodes(Tail(segs), sep)

RECURSIVE CodesCmp(_, _)
\* -1, 0, 1: Python's comparison of two strings, by code point.
CodesCmp(a, b) ==
  IF a = <<>> THEN (IF b = <<>> THEN 0 ELSE -1)
  ELSE IF b = <<>> THEN 1
  ELSE IF Head(a) < Head(b) THEN -1
  ELSE IF Head(a) > Head(b) THEN 1
  ELSE CodesCmp(Tail(a), Tail(b))

\* "_".join(segs) compared with "_".join(segs2)
StrCmp(a, b) == CodesCmp(JoinCodes(a, 95), JoinCodes(b, 95))
IntCmp(a, b) == IF a < b THEN -1 ELSE IF a > b THEN 1 ELSE 0

\* One component of a sort key: a string (as segments) or an integer.
KStr(segs) == [t |-> "s", s |-> segs, i |-> 0]
KInt(i) == [t |-> "i", s |-> <<>>, i |-> i]
\* "+".join(names) as a key component
KPlus(names) == [t |-> "p", s |-> names, i |-> 0]
CompCmp(a, b) ==
  IF a.t = "i" THEN IntCmp(a.i, b.i)
  ELSE IF a.t = "p" THEN CodesCmp(JoinCodes(a.s, 43), JoinCodes(b.s, 43))
  ELSE StrCmp(a.s, b.s)

RECURSIVE KeyCmp(_, _)
\* Python's comparison of two key tuples of the same shape.
KeyCmp(k1, k2) ==
  IF k1 = <<>> THEN 0
  ELSE IF CompCmp(Head(k1), Head(k2)) # 0 THEN CompCmp(Head(k1), Head(k2))
  ELSE KeyCmp(Tail(k1), Tail(k2))

\* sorted(items, key=...), keys[i] being the key of items[i]: a stable sort,
\* each item placed behind the items already placed whose key is not greater.
SortedByKey(items, keys) ==
  LET Place[i \in 0..Len(items)] ==
        IF i = 0 THEN <<>>
        ELSE LET prev == Place[i - 1]
                 notGreater == {j \in 1..Len(prev) : KeyCmp(keys[prev[j]], keys[i]) <= 0}
             IN InsertAt(prev, Cardinality(notGreater) + 1, i)
      perm == Place[Len(items)]
  IN [j \in 1..Len(items) |-> items[perm[j]]]

RECURSIVE SetToSeq(_)
\* The elements of a finite set in some order (every use sorts the result).
SetToSeq(S) ==
  IF S = {} THEN <<>>
  ELSE LET x == CHOOSE y \in S : TRUE IN <<x>> \o SetToSeq(S \ {x})

Max(S) == CHOOSE x \in S : \A y \in S : y <= x

(***************************************************************************)
(* Main variant: reports/main.py                                           *)
(***************************************************************************)
\* The literal build-step marker.
BuildStep == "Run nix build"

\* Line breaks in the segment texts used: the text ends with one, and the
\* text without it.
EndsWithNewline(seg) == seg \in {"x\n"}
ChopNewline(seg) == IF seg = "x\n" THEN "x" ELSE seg
\* the text of the segments without the line break it ends with
ChopLast(segs) ==
  IF segs = <<>> THEN segs
  ELSE [segs EXCEPT ![Len(segs)] = ChopNewline(segs[Len(segs)])]

\* JOB_NAME_RE.match(name): ^build_([^_]+)_cachetool_([^_]+)_phase_(.+)$ on the
\* segments of name.  [^_]+ is one whole non-empty segment; .+ is the
\* non-empty rest, underscores included, up to a line break; $ is the end of
\* the name or the line break that ends it.
JobNameMatches(name) ==
  /\ Len(name) >= 6
  /\ name[1] = "build"
  /\ name[2] # ""
  /\ name[3] = "cachetool"
  /\ name[4] # ""
  /\ name[5] = "phase"
  /\ \A i \in 6..(Len(name) - 1) : ~EndsWithNewline(name[i])
  /\ ChopLast(SubSeq(name, 6, Len(name))) # <<"">>

\* an alias table with an entry that leads back from a canonical name
ToolNormalizeReversed(t) ==
  CASE t = "none" -> "none"
    [] t = "cachix-action" -> "cachix"
    [] t = "cachix" -> "cachix-action"
    [] t = "cache-nix-action" -> "cache-nix-action"
    [] t = "magic-nix-cache-action" -> "magic-nix-cache"
    [] OTHER -> t
\* TOOL_NORMALIZE.get(raw_tool, raw_tool)
ToolNormalize(t) ==
  CASE t = "none" -> "none"
    [] t = "cachix-action" -> "cachix"
    [] t = "cache-nix-action" -> "cache-nix-action"
    [] t = "magic-nix-cache-action" -> "magic-nix-cache"
    [] OTHER -> t

NoParse == [ok |-> FALSE, target |-> "", tool |-> "", phase |-> <<>>]
\* parse_job returning the raw tool (as if the alias table were not applied)
ParseJobRawTool(name) ==
  IF ~JobNameMatches(name) THEN NoParse
  ELSE [ok |-> TRUE, target |-> name[2], tool |-> name[4],
        phase |-> ChopLast(SubSeq(name, 6, Len(name)))]
\* parse_job: None, or (target, tool, phase)
ParseJob(name) ==
  IF ~JobNameMatches(name) THEN NoParse
  ELSE [ok |-> TRUE, target |-> name[2], tool |-> ToolNormalize(name[4]),
        phase |-> ChopLast(SubSeq(name, 6, Len(name)))]

\* read_selection_csv, given the rows of the whitelist file: the entries with
\* a non-empty run_id; run_number is -1 for None (empty or not an integer).
ReadSelectionCsv(sel) ==
  LET Keep(r) == StripQuotes(r.run_id) # <<>>
      kept == SelectSeq(sel, Keep)
  IN [i \in 1..Len(kept) |->
        [run_id |-> StripQuotes(kept[i].run_id),
         run_number |-> IF kept[i].run_number = "" THEN -1 ELSE ParseInt(kept[i].run_number),
         note |-> kept[i].note]]

\* make_selector: allowed_runs; include(run_id, job_name_raw) is membership.
AllowedRuns(rules) == {rules[i].run_id : i \in 1..Len(rules)}
\* a selector that lets every run through
IncludeAlways(allowed, run_id, job_name_raw) == TRUE
Include(allowed, run_id, job_name_raw) == run_id \in allowed

\* The key of a run record: str(run_id or id).strip('"')
RunKey(r) == IF r.run_id = <<>> THEN <<"None">> ELSE StripQuotes(r.run_id)
\* int(run_number or 0) raises ValueError for some run record.
RunsRaise(runs) == \E i \in 1..Len(runs) : ParseInt(runs[i].run_number) = -1
\* map_run_number: run_id -> run_number, a later record replacing an earlier one.
MapRunNumber(runs) ==
  [id \in {RunKey(runs[i]) : i \in 1..Len(runs)} |->
     ParseInt(runs[Max({i \in 1..Len(runs) : RunKey(runs[i]) = id})].run_number)]

\* The duration test of load_build_rows: the row is dropped.
DurationRejected(dur) ==
  \/ dur = "" \/ dur = "null"
  \/ ParseFloat(dur) = ValueError
  \/ LeZero(ParseFloat(dur))

\* load_build_rows' loop without its duration tests
StepAcceptedAnyDuration(r, rn_by_run, allowed) ==
  /\ r.step_name = BuildStep
  /\ StripQuotes(r.run_id) \in DOMAIN rn_by_run
  /\ Include(allowed, StripQuotes(r.run_id), r.job_name)
  /\ ParseJob(r.job_name).ok
\* A step record passes every test of load_build_rows' loop.
StepAccepted(r, rn_by_run, allowed) ==
  /\ r.step_name = BuildStep
  /\ ~DurationRejected(r.duration_s)
  /\ StripQuotes(r.run_id) \in DOMAIN rn_by_run
  /\ Include(allowed, StripQuotes(r.run_id), r.job_name)
  /\ ParseJob(r.job_name).ok

\* The BuildRow of an accepted step record.
BuildRow(r, rn_by_run) ==
  LET parsed == ParseJob(r.job_name)
  IN [run_id |-> StripQuotes(r.run_id),
      run_number |-> rn_by_run[StripQuotes(r.run_id)],
      job_name_raw |-> r.job_name,
      job_name |-> <<parsed.target, "build">>,
      target |-> parsed.target,
      tool |-> parsed.tool,
      phase |-> parsed.phase,
      duration_s |-> ParseFloat(r.duration_s)]

\* load_build_rows (the run records parse: ~RunsRaise(runs))
LoadBuildRows(steps, runs, allowed) ==
  LET rn_by_run == MapRunNumber(runs)
      Ok(r) == StepAccepted(r, rn_by_run, allowed)
      kept == SelectSeq(steps, Ok)
  IN [i \in 1..Len(kept) |-> BuildRow(kept[i], rn_by_run)]

GroupKey(r) == <<r.target, r.tool, r.phase>>
\* group_cycle_index: (target, tool, phase) -> run_id -> index.  The index is
\* stored under the run_id alone, a later row of the run replacing an earlier.
GroupCycleIndex(rows) ==
  [key \in {GroupKey(rows[i]) : i \in 1..Len(rows)} |->
     LET InGroup(r) == GroupKey(r) = key
         lst == SelectSeq(rows, InGroup)
         lst_sorted == SortedByKey(lst, [i \in 1..Len(lst) |-> <<KInt(lst[i].run_number)>>])
     IN [id \in {lst[i].run_id : i \in 1..Len(lst)} |->
           Max({i \in 1..Len(lst_sorted) : lst_sorted[i].run_id = id})]]

\* write_detail_csv sorting on the phase before the tool
WriteDetailCsvPhaseFirst(rows) ==
  LET idx_map == GroupCycleIndex(rows)
      sorted == SortedByKey(rows, [i \in 1..Len(rows) |->
                  <<KStr(rows[i].job_name), KStr(rows[i].phase),
                    KStr(<<rows[i].tool>>), KInt(rows[i].run_number)>>])
  IN [i \in 1..Len(sorted) |->
        [run_number |-> sorted[i].run_number,
         job_name |-> sorted[i].job_name,
         tool |-> sorted[i].tool,
         phase |-> sorted[i].phase,
         cycle_index |-> idx_map[GroupKey(sorted[i])][sorted[i].run_id],
         duration_s |-> Fmt3(sorted[i].duration_s),
         run_id |-> sorted[i].run_id]]
\* write_detail_csv: the data lines of the detail artifact
WriteDetailCsv(rows) ==
  LET idx_map == GroupCycleIndex(rows)
      sorted == SortedByKey(rows, [i \in 1..Len(rows) |->
                  <<KStr(rows[i].job_name), KStr(<<rows[i].tool>>),
                    KStr(rows[i].phase), KInt(rows[i].run_number)>>])
  IN [i \in 1..Len(sorted) |->
        [run_number |-> sorted[i].run_number,
         job_name |-> sorted[i].job_name,
         tool |-> sorted[i].tool,
         phase |-> sorted[i].phase,
         cycle_index |-> idx_map[GroupKey(sorted[i])][sorted[i].run_id],
         duration_s |-> Fmt3(sorted[i].duration_s),
         run_id |-> sorted[i].run_id]]

\* [r.duration_s for r in rows if ...]
Durations(rs) == [i \in 1..Len(rs) |-> rs[i].duration_s]
\* sum(xs) / len(xs) if xs else None
Mean(xs) == IF xs = <<>> THEN NoneV ELSE FDiv(FSum(xs), Num(Len(xs), 1))

\* compute_baseline without the test of the job name
ComputeBaselineAnyJob(rows, job_name) ==
  LET IsBase(r) == r.tool = "none" /\ r.phase = <<"generate-cache">>
  IN Mean(Durations(SelectSeq(rows, IsBase)))
\* compute_baseline: the mean duration of the job's tool=none,
\* phase=generate-cache rows, or None
ComputeBaseline(rows, job_name) ==
  LET IsBase(r) ==
        r.job_name = job_name /\ r.tool = "none" /\ r.phase = <<"generate-cache">>
  IN Mean(Durations(SelectSeq(rows, IsBase)))

\* sorted({r.job_name for r in rows})
SortedJobNames(rows) ==
  LET names == SetToSeq({rows[i].job_name : i \in 1..Len(rows)})
  IN SortedByKey(names, [i \in 1..Len(names) |-> <<KStr(names[i])>>])

\* only the last of the sequences (each written over the one before)
ConcatLast(ss) == IF ss = <<>> THEN <<>> ELSE ss[Len(ss)]
RECURSIVE Concat(_)
Concat(ss) == IF ss = <<>> THEN <<>> ELSE Head(ss) \o Concat(Tail(ss))

\* write_speed_csv: the data lines of the speedup artifact
WriteSpeedCsv(rows) ==
  LET jobs == SortedJobNames(rows)
      Lines(job) ==
        LET base == ComputeBaseline(rows, job)
            OfJob(x) == x.job_name = job
            mine == SelectSeq(rows, OfJob)
            sorted == SortedByKey(mine, [i \in 1..Len(mine) |->
                        <<KInt(mine[i].run_number), KStr(<<mine[i].tool>>), KStr(mine[i].phase)>>])
        IN [i \in 1..Len(sorted) |->
              LET r == sorted[i]
                  speed == IF Truthy(base) /\ Truthy(r.duration_s)
                           THEN FDiv(base, r.duration_s) ELSE NoneV
              IN [job_name |-> job,
                  tool |-> r.tool,
                  phase |-> r.phase,
                  run_number |-> r.run_number,
                  duration_s |-> Fmt3(r.duration_s),
                  speedup_vs_baseline |-> IF Truthy(speed) THEN Fmt3(speed) ELSE Blank]]
  IN Concat([j \in 1..Len(jobs) |-> Lines(jobs[j])])

\* load_job_totals: (run_id, job_name) -> the job's total, a later record
\* replacing an earlier one; records without run_id or duration are skipped.
JobDuration(j) ==
  IF j.duration_s \in {"", "null"} \/ ParseFloat(j.duration_s) = ValueError
  THEN NoneV ELSE ParseFloat(j.duration_s)
LoadJobTotals(jobs) ==
  LET Keep(j) == StripQuotes(j.run_id) # <<>> /\ JobDuration(j) # NoneV
      kept == SelectSeq(jobs, Keep)
      KeyOf(j) == <<StripQuotes(j.run_id), j.job_name>>
  IN [key \in {KeyOf(kept[i]) : i \in 1..Len(kept)} |->
        JobDuration(kept[Max({i \in 1..Len(kept) : KeyOf(kept[i]) = key})])]

\* job_totals.get((r.run_id, r.job_name_raw))
TotalOf(job_totals, r) ==
  IF <<r.run_id, r.job_name_raw>> \in DOMAIN job_totals
  THEN job_totals[<<r.run_id, r.job_name_raw>>] ELSE NoneV

\* write_combined_csv: the data lines of the combined artifact
WriteCombinedCsv(rows, job_totals) ==
  LET sorted == SortedByKey(rows, [i \in 1..Len(rows) |->
                  <<KStr(rows[i].job_name), KInt(rows[i].run_number), KStr(<<rows[i].tool>>)>>])
  IN [i \in 1..Len(sorted) |->
        LET r == sorted[i]
            tot == TotalOf(job_totals, r)
        IN [run_number |-> r.run_number,
            job_name |-> r.job_name,
            tool |-> r.tool,
            phase |-> r.phase,
            build_s |-> Fmt3(r.duration_s),
            job_total_s |-> IF IsFloat(tot) THEN Fmt3(tot) ELSE Blank,
            build_share |-> IF Truthy(tot) /\ GtZero(tot)
                            THEN Fmt3(FDiv(r.duration_s, tot)) ELSE Blank,
            run_id |-> r.run_id]]

\* std with the divisor n in place of n - 1
StdPopulation(xs) ==
  IF xs = <<>> THEN NoneV
  ELSE IF Len(xs) < 2 THEN Num(0, 1)
  ELSE LET m == Mean(xs)
           sq == [i \in 1..Len(xs) |-> FMul(FSub(xs[i], m), FSub(xs[i], m))]
       IN FSqrt(FDiv(FSum(sq), Num(Len(xs), 1)))
\* std of write_summary_csv and plot_errorbars_job_totals: the sample standard
\* deviation (divisor n - 1), 0.0 for one value, None for none
Std(xs) ==
  IF xs = <<>> THEN NoneV
  ELSE IF Len(xs) < 2 THEN Num(0, 1)
  ELSE LET m == Mean(xs)
           sq == [i \in 1..Len(xs) |-> FMul(FSub(xs[i], m), FSub(xs[i], m))]
       IN FSqrt(FDiv(FSum(sq), Num(Len(xs) - 1, 1)))

FmtOpt(v) == IF v = NoneV THEN Blank ELSE Fmt3(v)

SummaryKey(r) == <<r.job_name, r.tool, r.phase>>
\* write_summary_csv: the data lines of the summary artifact
WriteSummaryCsv(rows, job_totals) ==
  LET keys == SetToSeq({SummaryKey(rows[i]) : i \in 1..Len(rows)})
      sortedKeys == SortedByKey(keys, [i \in 1..Len(keys) |->
                      <<KStr(keys[i][1]), KStr(<<keys[i][2]>>), KStr(keys[i][3])>>])
  IN [g \in 1..Len(sortedKeys) |->
        LET key == sortedKeys[g]
            InGroup(r) == SummaryKey(r) = key
            vals == SelectSeq(rows, InGroup)
            HasTotal(r) == IsFloat(TotalOf(job_totals, r))
            HasShare(r) == IsFloat(TotalOf(job_totals, r)) /\ GtZero(TotalOf(job_totals, r))
            withTotal == SelectSeq(vals, HasTotal)
            withShare == SelectSeq(vals, HasShare)
            build_vals == Durations(vals)
            total_vals == [i \in 1..Len(withTotal) |-> TotalOf(job_totals, withTotal[i])]
            share_vals == [i \in 1..Len(withShare) |->
                             FDiv(withShare[i].duration_s, TotalOf(job_totals, withShare[i]))]
        IN [job_name |-> key[1],
            tool |-> key[2],
            phase |-> key[3],
            n |-> Len(vals),
            build_mean_s |-> FmtOpt(Mean(build_vals)),
            build_std_s |-> FmtOpt(Std(build_vals)),
            job_total_mean_s |-> FmtOpt(Mean(total_vals)),
            build_share_mean |-> FmtOpt(Mean(share_vals))]]

\* _fixed_order_labels: (phase, tool)
FixedOrderLabels ==
  << <<"generate-cache", "none">>,
     <<"generate-cache", "cachix">>, <<"use-cache", "cachix">>,
     <<"generate-cache", "cache-nix-action">>, <<"use-cache", "cache-nix-action">>,
     <<"generate-cache", "magic-nix-cache">>, <<"use-cache", "magic-nix-cache">> >>

\* x or 0.0
OrZero(v) == IF Truthy(v) THEN v ELSE Num(0, 1)

\* The bars of one error-bar chart: the labels kept from the fixed order, with
\* their means and deviations; MeanOf gives None for a label to leave out.
Bars(order, means, stds) ==
  LET Shown(i) == means[i] # NoneV
      idx == SelectSeq([i \in 1..Len(order) |-> i], Shown)
  IN [labels |-> [b \in 1..Len(idx) |-> <<order[idx[b]][2], order[idx[b]][1]>>],
      means |-> [b \in 1..Len(idx) |-> means[idx[b]]],
      stds |-> [b \in 1..Len(idx) |-> OrZero(stds[idx[b]])]]

\* plot_errorbars_means, once matplotlib is imported: the charts it renders,
\* one per job with at least one bar, from the summary artifact read back.
PlotErrorbarsMeans(rows, summary) ==
  LET jobs == SortedJobNames(rows)
      Line(job, tool, ph) ==
        {i \in 1..Len(summary) : summary[i].job_name = job /\ summary[i].tool = tool
                                  /\ summary[i].phase = <<ph>>}
      Field(f) == IF f.k = "blank" THEN NoneV ELSE ParseFmt3(f)
      Chart(job) ==
        LET means == [o \in 1..Len(FixedOrderLabels) |->
                        LET at == Line(job, FixedOrderLabels[o][2], FixedOrderLabels[o][1])
                        IN IF at = {} THEN NoneV ELSE Field(summary[Max(at)].build_mean_s)]
            stds == [o \in 1..Len(FixedOrderLabels) |->
                        LET at == Line(job, FixedOrderLabels[o][2], FixedOrderLabels[o][1])
                        IN IF at = {} THEN NoneV ELSE Field(summary[Max(at)].build_std_s)]
        IN [file |-> <<"errorbars_build", job>>, bars |-> Bars(FixedOrderLabels, means, stds)]
      HasBars(c) == c.bars.means # <<>>
  IN SelectSeq([j \in 1..Len(jobs) |-> Chart(jobs[j])], HasBars)

\* plot_errorbars_job_totals, once matplotlib is imported: the charts it renders
PlotErrorbarsJobTotals(rows, job_totals) ==
  LET jobs == SortedJobNames(rows)
      Totals(job, tool, ph) ==
        LET Match(r) == /\ r.job_name = job /\ r.phase = <<ph>> /\ r.tool = tool
                        /\ IsFloat(TotalOf(job_totals, r))
            m == SelectSeq(rows, Match)
        IN [i \in 1..Len(m) |-> TotalOf(job_totals, m[i])]
      Chart(job) ==
        LET means == [o \in 1..Len(FixedOrderLabels) |->
                        Mean(Totals(job, FixedOrderLabels[o][2], FixedOrderLabels[o][1]))]
            stds == [o \in 1..Len(FixedOrderLabels) |->
                        Std(Totals(job, FixedOrderLabels[o][2], FixedOrderLabels[o][1]))]
        IN [file |-> <<"errorbars_job_total", job>>, bars |-> Bars(FixedOrderLabels, means, stds)]
      HasBars(c) == c.bars.means # <<>>
  IN SelectSeq([j \in 1..Len(jobs) |-> Chart(jobs[j])], HasBars)

\* The input files main expects, in the order it tests them.
ExpectedFiles == <<"steps", "runs", "jobs", "selection">>
\* the test of the inputs with the job file left out
MissingInputsNoJobs(present) ==
  LET Absent(p) == p \notin present /\ p # "jobs" IN SelectSeq(ExpectedFiles, Absent)
\* missing = [p for p in [steps_p, runs_p, jobs_p, args.selection_csv] if not p.exists()]
MissingInputs(present) ==
  LET Absent(p) == p \notin present IN SelectSeq(ExpectedFiles, Absent)

(***************************************************************************)
(* State                                                                   *)
(***************************************************************************)
VARIABLES
  present,     \* the input files that exist
  steps,       \* actions_steps.csv: its records, in file order
  runs,        \* actions_runs.csv
  jobs,        \* actions_jobs.csv
  selection,   \* selection.csv (the whitelist)
  pc,          \* the statement main has reached
  rules,       \* read_selection_csv's result
  rows,        \* load_build_rows' result
  job_totals,  \* load_job_totals' result
  written,     \* the artifacts written so far
  detail,      \* the data lines of each artifact
  speed,
  combined,
  summary,
  figures,     \* the chart files saved
  log,         \* the chart failures printed
  error,       \* the exception main ended with
  job,         \* parse_job alone: the job name and the components it was built from
  parsed,
  norm         \* a raw tool name and its successive normalizations

vars == <<present, steps, runs, jobs, selection, pc, rules, rows, job_totals,
          written, detail, speed, combined, summary, figures, log, error, job, parsed, norm>>

inputs == <<present, steps, runs, jobs, selection>>
outputs == <<written, detail, speed, combined, summary, figures, log>>
parseVars == <<job, parsed, norm>>

NoError == [type |-> "none", listed |-> <<>>, hint |-> FALSE]
\* FileNotFoundError(f"selection csv not found: {path}")
SelectionNotFound == [type |-> "FileNotFoundError", listed |-> <<"selection">>, hint |-> FALSE]
\* FileNotFoundError("\n".join(msg)): the missing paths and the two hint lines
InputsMissing(missing) == [type |-> "FileNotFoundError", listed |-> missing, hint |-> TRUE]
\* An exception no handler catches, raised while reading or computing.
Uncaught(type) == [type |-> type, listed |-> <<>>, hint |-> FALSE]

NoJob == [name |-> <<>>, target |-> <<>>, tool |-> <<>>, phase |-> <<>>]

(***************************************************************************)
(* Inputs of the main variant                                              *)
(***************************************************************************)
StepRec(id, name, step, dur) ==
  [run_id |-> id, job_name |-> name, step_name |-> step, duration_s |-> dur]
RunRec(id, number) == [run_id |-> id, run_number |-> number]
JobRec(id, name, dur) == [run_id |-> id, job_name |-> name, duration_s |-> dur]
SelRec(id, number, note) == [run_id |-> id, run_number |-> number, note |-> note]

ZennNone == <<"build", "zenn", "cachetool", "none", "phase", "generate-cache">>
ZennCachix == <<"build", "zenn", "cachetool", "cachix-action", "phase", "use-cache">>
MarpNone == <<"build", "marp", "cachetool", "none", "phase", "generate-cache">>

StepDomain ==
  { StepRec(<<"r1">>, ZennNone, BuildStep, "10.0"),
    StepRec(<<DQ, "r2", DQ>>, ZennNone, BuildStep, "20.0"),
    StepRec(<<"r1">>, ZennCachix, BuildStep, "5.0"),
    StepRec(<<"r2">>, MarpNone, BuildStep, "10.0"),
    StepRec(<<"r1">>, ZennNone, BuildStep, "nan"),
    StepRec(<<"r9">>, ZennNone, BuildStep, "10.0"),
    StepRec(<<"r1">>, <<"deploy">>, BuildStep, "10.0"),
    StepRec(<<"r1">>, ZennNone, "Checkout", "10.0"),
    StepRec(<<"r1">>, ZennNone, BuildStep, "0"),
    StepRec(<<"r1">>, ZennNone, BuildStep, "abc"),
    StepRec(<<"r1">>, ZennNone, BuildStep, "null") }

RunsBoth == << RunRec(<<"r1">>, "5"), RunRec(<<DQ, "r2", DQ>>, "6") >>
RunsR1 == << RunRec(<<"r1">>, "5") >>

JobsA ==
  << JobRec(<<"r1">>, ZennNone, "100.0"), JobRec(<<"r1">>, ZennNone, "40.0"),
     JobRec(<<DQ, "r2", DQ>>, ZennNone, "0"), JobRec(<<"r1">>, ZennCachix, "nan") >>
JobsB ==
  << JobRec(<<"r1">>, ZennNone, "abc"), JobRec(<<>>, ZennNone, "10.0"),
     JobRec(<<"r2">>, ZennNone, "-5"), JobRec(<<"r2">>, MarpNone, "20.0"),
     JobRec(<<"r1">>, ZennCachix, "null") >>

SelNone == <<>>
SelR1 == << SelRec(<<"r1">>, "5", "") >>
SelBoth ==
  << SelRec(<<DQ, "r2", DQ>>, "7", "retry"), SelRec(<<>>, "5", ""), SelRec(<<"r1">>, "", "") >>
SelR2 == << SelRec(<<"r2">>, "abc", "kept"), SelRec(<<"r9">>, "", "") >>
SelectionFiles == {SelNone, SelR1, SelBoth, SelR2}

\* The whitelist, job and run files that are run together.
Workloads ==
  { <<SelNone, JobsA, RunsBoth>>, <<SelR1, JobsA, RunsBoth>>, <<SelR1, JobsA, RunsR1>>,
    <<SelBoth, JobsA, RunsBoth>>, <<SelBoth, JobsB, RunsBoth>>, <<SelR2, JobsB, RunsBoth>> }

AllFiles == Range(ExpectedFiles)

Init ==
  /\ present \in SUBSET AllFiles
  /\ IF present = AllFiles
     THEN /\ steps \in SeqsUpTo(StepDomain, MaxSteps)
          /\ \E w \in Workloads : selection = w[1] /\ jobs = w[2] /\ runs = w[3]
     ELSE /\ steps = <<>>
          /\ runs = <<>>
          /\ jobs = <<>>
          /\ selection \in (IF "selection" \in present THEN SelectionFiles ELSE {<<>>})
  /\ pc = "start"
  /\ rules = <<>>
  /\ rows = <<>>
  /\ job_totals = <<>>
  /\ written = {}
  /\ detail = <<>>
  /\ speed = <<>>
  /\ combined = <<>>
  /\ summary = <<>>
  /\ figures = {}
  /\ log = {}
  /\ error = NoError
  /\ job = NoJob
  /\ parsed = NoParse
  /\ norm = <<>>

(***************************************************************************)
(* main() of the main variant, statement by statement                      *)
(***************************************************************************)
Fail(e) == pc' = "failed" /\ error' = e

\* rules = read_selection_csv(args.selection_csv); selector = make_selector(rules)
ReadSelection ==
  /\ pc = "start"
  /\ IF "selection" \notin present
     THEN Fail(SelectionNotFound) /\ UNCHANGED rules
     ELSE pc' = "selected" /\ rules' = ReadSelectionCsv(selection) /\ UNCHANGED error
  /\ UNCHANGED <<inputs, rows, job_totals, outputs, parseVars>>

\* missing = [...]; if missing: raise FileNotFoundError(...)
CheckInputs ==
  /\ pc = "selected"
  /\ IF MissingInputs(present) # <<>>
     THEN Fail(InputsMissing(MissingInputs(present)))
     ELSE pc' = "checked" /\ UNCHANGED error
  /\ UNCHANGED <<inputs, rules, rows, job_totals, outputs, parseVars>>

\* rows = load_build_rows(steps_p, runs_p, selector=selector)
LoadRows ==
  /\ pc = "checked"
  /\ IF ~({"steps", "runs"} \subseteq present)
     THEN Fail(Uncaught("FileNotFoundError")) /\ UNCHANGED rows
     ELSE IF RunsRaise(runs)
     THEN Fail(Uncaught("ValueError")) /\ UNCHANGED rows
     ELSE /\ pc' = "loaded"
          /\ rows' = LoadBuildRows(steps, runs, AllowedRuns(rules))
          /\ UNCHANGED error
  /\ UNCHANGED <<inputs, rules, job_totals, outputs, parseVars>>

\* write_detail_csv(rows, args.out_detail)
WriteDetail ==
  /\ pc = "loaded"
  /\ pc' = "detail"
  /\ detail' = WriteDetailCsv(rows)
  /\ written' = written \cup {"detail"}
  /\ UNCHANGED <<inputs, rules, rows, job_totals, speed, combined, summary,
                 figures, log, error, parseVars>>

\* write_speed_csv(rows, args.out_speed)
WriteSpeed ==
  /\ pc = "detail"
  /\ pc' = "speed"
  /\ speed' = WriteSpeedCsv(rows)
  /\ written' = written \cup {"speed"}
  /\ UNCHANGED <<inputs, rules, rows, job_totals, detail, combined, summary,
                 figures, log, error, parseVars>>

\* job_totals = load_job_totals(jobs_p, runs_p)
LoadTotals ==
  /\ pc = "speed"
  /\ IF ~({"jobs", "runs"} \subseteq present)
     THEN Fail(Uncaught("FileNotFoundError")) /\ UNCHANGED job_totals
     ELSE IF RunsRaise(runs)
     THEN Fail(Uncaught("ValueError")) /\ UNCHANGED job_totals
     ELSE pc' = "totals" /\ job_totals' = LoadJobTotals(jobs) /\ UNCHANGED error
  /\ UNCHANGED <<inputs, rules, rows, outputs, parseVars>>

\* write_combined_csv(rows, job_totals, args.out_combined)
WriteCombined ==
  /\ pc = "totals"
  /\ pc' = "combined"
  /\ combined' = WriteCombinedCsv(rows, job_totals)
  /\ written' = written \cup {"combined"}
  /\ UNCHANGED <<inputs, rules, rows, job_totals, detail, speed, summary,
                 figures, log, error, parseVars>>

\* write_summary_csv(rows, job_totals, result_dir / "summary.csv")
WriteSummary ==
  /\ pc = "combined"
  /\ pc' = "summary"
  /\ summary' = WriteSummaryCsv(rows, job_totals)
  /\ written' = written \cup {"summary"}
  /\ UNCHANGED <<inputs, rules, rows, job_totals, detail, speed, combined,
                 figures, log, error, parseVars>>

ImportFailed == [what |-> "import", file |-> <<>>]
ChartFailed(file) == [what |-> "chart", file |-> file]

\* except Exception as e: print(f"matplotlib ... {e}"); return
ImportFails ==
  /\ log' = log \cup {ImportFailed}
  /\ UNCHANGED <<figures, written>>

\* The loop over the charts of one chart function of the main variant, each
\* rendered inside try/except: the charts in `raising` raise and are printed,
\* the others are saved.
Render(charts) ==
  \E raising \in SUBSET {charts[i].file : i \in 1..Len(charts)} :
    /\ figures' = figures \cup {charts[i] : i \in {j \in 1..Len(charts) :
                                                    charts[j].file \notin raising}}
    /\ log' = log \cup {ChartFailed(f) : f \in raising}
    /\ written' = written \cup {"figures"}

\* plot_errorbars_means(rows, result_dir / "summary.csv", args.fig_dir)
PlotMeans ==
  /\ pc = "summary"
  /\ pc' = "means"
  /\ \/ ImportFails
     \/ Render(PlotErrorbarsMeans(rows, summary))
  /\ UNCHANGED <<inputs, rules, rows, job_totals, detail, speed, combined, summary,
                 error, parseVars>>

\* plot_errorbars_job_totals(rows, job_totals, args.fig_dir), then the prints;
\* the import that failed in the first chart function fails here too.
PlotJobTotals ==
  /\ pc = "means"
  /\ pc' = "done"
  /\ IF ImportFailed \in log
     THEN ImportFails
     ELSE Render(PlotErrorbarsJobTotals(rows, job_totals))
  /\ UNCHANGED <<inputs, rules, rows, job_totals, detail, speed, combined, summary,
                 error, parseVars>>

Next ==
  \/ ReadSelection
  \/ CheckInputs
  \/ LoadRows
  \/ WriteDetail
  \/ WriteSpeed
  \/ LoadTotals
  \/ WriteCombined
  \/ WriteSummary
  \/ PlotMeans
  \/ PlotJobTotals

Spec == Init /\ [][Next]_vars

(***************************************************************************)
(* parse_job on its own: job names built from bounded components           *)
(***************************************************************************)
\* The segments a target, a tool and a phase are built from ("" is the empty
\* text between two underscores, or an empty component).
TargetSegs == {"", "zenn", "cachetool"}
ToolSegs == {"", "none", "cachix-action", "phase"}
PhaseSegs == {"", "use-cache", "x", "x\n"}
\* The texts of at most MaxSegs segments, i.e. with fewer than MaxSegs underscores.
Texts(segs) == SeqsUpTo(segs, MaxSegs) \ {<<>>}

\* f"build_{target}_cachetool_{tool}_phase_{phase}"
JoinJobName(target, tool, phase) ==
  <<"build">> \o target \o <<"cachetool">> \o tool \o <<"phase">> \o phase

\* The step file of one valid build step of run r1 with the given job name.
OneStep(name) == << StepRec(<<"r1">>, name, BuildStep, "10.0") >>
OneRun == << RunRec(<<"r1">>, "5") >>
\* Names that are no join of a target, a tool and a phase.
OtherNames ==
  { <<"deploy">>, <<"build", "zenn">>, <<"build", "zenn", "cachetool", "none">>,
    <<"build", "zenn", "cachetool", "none", "phase">>,
    <<"build", "zenn", "cache", "none", "phase", "x">>,
    <<"", "build", "zenn", "cachetool", "none", "phase", "x">> }

ParseInit ==
  /\ \/ \E t \in Texts(TargetSegs), tl \in Texts(ToolSegs), ph \in Texts(PhaseSegs) :
          job = [name |-> JoinJobName(t, tl, ph), target |-> t, tool |-> tl, phase |-> ph]
     \/ \E n \in OtherNames :
          job = [name |-> n, target |-> <<"">>, tool |-> <<"">>, phase |-> <<"">>]
  /\ present = AllFiles
  /\ steps = OneStep(job.name)
  /\ runs = OneRun
  /\ jobs = <<>>
  /\ selection = << SelRec(<<"r1">>, "", "") >>
  /\ pc = "parse"
  /\ rules = ReadSelectionCsv(selection)
  /\ rows = <<>>
  /\ job_totals = <<>>
  /\ written = {}
  /\ detail = <<>>
  /\ speed = <<>>
  /\ combined = <<>>
  /\ summary = <<>>
  /\ figures = {}
  /\ log = {}
  /\ error = NoError
  /\ parsed = NoParse
  /\ norm = <<>>

\* parsed = parse_job(job_name_raw)
ParseName ==
  /\ pc = "parse"
  /\ pc' = "parsed"
  /\ parsed' = ParseJob(job.name)
  /\ UNCHANGED <<inputs, rules, rows, job_totals, outputs, error, job, norm>>

\* load_build_rows on the one-step file
ParseLoad ==
  /\ pc = "parsed"
  /\ pc' = "parse_loaded"
  /\ rows' = LoadBuildRows(steps, runs, AllowedRuns(rules))
  /\ UNCHANGED <<inputs, rules, job_totals, outputs, error, parseVars>>

ParseNext == ParseName \/ ParseLoad

SpecParse == ParseInit /\ [][ParseNext]_vars

(***************************************************************************)
(* TOOL_NORMALIZE applied again and again to a raw tool name               *)
(***************************************************************************)
\* The most normalizations applied to one name.
MaxApply == 3
\* Raw tool names: the canonical names, the aliases, unknown names.
NormTools ==
  {"none", "cachix", "cache-nix-action", "magic-nix-cache",
   "cachix-action", "magic-nix-cache-action", "phase", ""}

NormInit ==
  /\ \E t \in {"zenn", "marp"}, tl \in NormTools, ph \in Texts(PhaseSegs) :
       job = [name |-> JoinJobName(<<t>>, <<tl>>, ph), target |-> <<t>>,
              tool |-> <<tl>>, phase |-> ph]
  /\ norm = <<job.tool[1]>>
  /\ present = AllFiles
  /\ steps = OneStep(job.name)
  /\ runs = OneRun
  /\ jobs = <<>>
  /\ selection = << SelRec(<<"r1">>, "", "") >>
  /\ pc = "parse"
  /\ rules = ReadSelectionCsv(selection)
  /\ rows = <<>>
  /\ job_totals = <<>>
  /\ written = {}
  /\ detail = <<>>
  /\ speed = <<>>
  /\ combined = <<>>
  /\ summary = <<>>
  /\ figures = {}
  /\ log = {}
  /\ error = NoError
  /\ parsed = NoParse

\* tool = TOOL_NORMALIZE.get(tool, tool), on the value got last
Normalize ==
  /\ Len(norm) <= MaxApply
  /\ norm' = Append(norm, ToolNormalize(norm[Len(norm)]))
  /\ UNCHANGED <<inputs, pc, rules, rows, job_totals, outputs, error, job, parsed>>

NormNext == ParseName \/ Normalize

SpecNorm == NormInit /\ [][NormNext]_vars

(***************************************************************************)
(* Preliminary variant: reports/preliminary_study/main.py                  *)
(* A step name is the sequence of its pieces, a cache-action marker being  *)
(* one piece; a tool is the sequence of the names that "+" joins.          *)
(***************************************************************************)
TARGET_RUNS == {2, 3, 4, 7, 8, 9, 10}
BASELINE_RUN == 2
\* the detected tool taking precedence over the table
ToolByRunNumberDetectedFirst(run_number, detected) ==
  IF detected # <<"none">> THEN detected
  ELSE CASE run_number = 2 -> <<"none">>
         [] run_number \in {3, 4} -> <<"cachix">>
         [] run_number \in {7, 8} -> <<"cache-nix-action">>
         [] run_number \in {9, 10} -> <<"magic-nix-cache">>
         [] OTHER -> detected
\* TOOL_BY_RUN_NUMBER.get(run_number, detected)
ToolByRunNumber(run_number, detected) ==
  CASE run_number = 2 -> <<"none">>
    [] run_number \in {3, 4} -> <<"cachix">>
    [] run_number \in {7, 8} -> <<"cache-nix-action">>
    [] run_number \in {9, 10} -> <<"magic-nix-cache">>
    [] OTHER -> detected

\* CACHE_KEYWORDS: the tools one of whose needles the step name contains
ToolsNamedIn(step_name) ==
  {tool \in {"magic-nix-cache", "cachix", "cache-nix-action"} :
     \/ tool = "magic-nix-cache" /\ "DeterminateSystems/magic-nix-cache-action" \in Range(step_name)
     \/ tool = "cachix" /\ "cachix/cachix-action" \in Range(step_name)
     \/ tool = "cache-nix-action" /\ "cache-nix-action" \in Range(step_name)}

\* map_run_cache: run_id -> the detected tool, for the runs with a marker
MapRunCache(step_rows) ==
  LET Found(id) == UNION {ToolsNamedIn(step_rows[i].step_name) :
                            i \in {j \in 1..Len(step_rows) : StripQuotes(step_rows[j].run_id) = id}}
      flagged == {id \in {StripQuotes(step_rows[i].run_id) : i \in 1..Len(step_rows)} :
                    Found(id) # {}}
  IN [id \in flagged |->
        LET found == SetToSeq(Found(id))
        IN SortedByKey(found, [i \in 1..Len(found) |-> <<KStr(<<found[i]>>)>>])]

\* phase_from_run_number
PhaseFromRunNumber(run_number) ==
  IF run_number = BASELINE_RUN THEN "baseline"
  ELSE IF run_number \in {3, 7, 9} THEN "first"
  ELSE IF run_number \in {4, 8, 10} THEN "second"
  ELSE "other"

\* The tests of the preliminary load_build_rows' loop; no test of the sign.
PStepAccepted(r, rn_by_run) ==
  /\ r.step_name = <<BuildStep>>
  /\ r.duration_s \notin {"", "null"}
  /\ ParseFloat(r.duration_s) # ValueError
  /\ StripQuotes(r.run_id) \in DOMAIN rn_by_run

\* load_build_rows of the preliminary variant
PLoadBuildRows(step_rows, run_rows) ==
  LET tool_by_run == MapRunCache(step_rows)
      rn_by_run == MapRunNumber(run_rows)
      Ok(r) == PStepAccepted(r, rn_by_run)
      kept == SelectSeq(step_rows, Ok)
  IN [i \in 1..Len(kept) |->
        LET run_id == StripQuotes(kept[i].run_id)
            detected == IF run_id \in DOMAIN tool_by_run THEN tool_by_run[run_id] ELSE <<"none">>
        IN [run_id |-> run_id,
            run_number |-> rn_by_run[run_id],
            job_name |-> kept[i].job_name,
            tool |-> ToolByRunNumber(rn_by_run[run_id], detected),
            phase |-> PhaseFromRunNumber(rn_by_run[run_id]),
            duration_s |-> ParseFloat(kept[i].duration_s)]]

\* filter_target
FilterTarget(rs) ==
  LET InTarget(r) == r.run_number \in TARGET_RUNS IN SelectSeq(rs, InTarget)

\* load_job_totals of the preliminary variant: target runs only
PLoadJobTotals(job_rows, run_rows) ==
  LET rn_by_run == MapRunNumber(run_rows)
      Keep(j) == /\ StripQuotes(j.run_id) # <<>>
                 /\ JobDuration(j) # NoneV
                 /\ StripQuotes(j.run_id) \in DOMAIN rn_by_run
                 /\ rn_by_run[StripQuotes(j.run_id)] \in TARGET_RUNS
      kept == SelectSeq(job_rows, Keep)
      KeyOf(j) == <<StripQuotes(j.run_id), j.job_name>>
  IN [key \in {KeyOf(kept[i]) : i \in 1..Len(kept)} |->
        JobDuration(kept[Max({i \in 1..Len(kept) : KeyOf(kept[i]) = key})])]

\* job_totals.get((r.run_id, r.job_name))
PTotalOf(totals, r) ==
  IF <<r.run_id, r.job_name>> \in DOMAIN totals THEN totals[<<r.run_id, r.job_name>>] ELSE NoneV

PSortKey(rs) ==
  [i \in 1..Len(rs) |-> <<KStr(rs[i].job_name), KInt(rs[i].run_number), KPlus(rs[i].tool)>>]

\* write_detail_csv of the preliminary variant
PWriteDetailCsv(rs) ==
  LET sorted == SortedByKey(rs, PSortKey(rs))
  IN [i \in 1..Len(sorted) |->
        [run_number |-> sorted[i].run_number,
         job_name |-> sorted[i].job_name,
         tool |-> sorted[i].tool,
         phase |-> sorted[i].phase,
         duration_s |-> Fmt3(sorted[i].duration_s),
         run_id |-> sorted[i].run_id]]

\* compute_baseline of the preliminary variant: the job's first row of run 2
PComputeBaseline(rs, job_name) ==
  LET IsBase(r) == r.job_name = job_name /\ r.run_number = BASELINE_RUN
      vals == Durations(SelectSeq(rs, IsBase))
  IN IF vals = <<>> THEN NoneV ELSE vals[1]

\* write_speed_csv of the preliminary variant
PWriteSpeedCsv(rs) ==
  LET names == SortedJobNames(rs)
      Lines(name) ==
        LET base == PComputeBaseline(rs, name)
            OfJob(x) == x.job_name = name
            mine == SelectSeq(rs, OfJob)
            sorted == SortedByKey(mine, [i \in 1..Len(mine) |->
                        <<KInt(mine[i].run_number), KPlus(mine[i].tool)>>])
        IN [i \in 1..Len(sorted) |->
              LET r == sorted[i]
                  spd == IF Truthy(base) /\ Truthy(r.duration_s)
                         THEN FDiv(base, r.duration_s) ELSE NoneV
              IN [job_name |-> name,
                  tool |-> r.tool,
                  phase |-> r.phase,
                  run_number |-> r.run_number,
                  duration_s |-> Fmt3(r.duration_s),
                  speedup_vs_baseline |-> IF Truthy(spd) THEN Fmt3(spd) ELSE Blank]]
  IN Concat([j \in 1..Len(names) |-> Lines(names[j])])

\* write_combined_csv of the preliminary variant
PWriteCombinedCsv(rs, totals) ==
  LET sorted == SortedByKey(rs, PSortKey(rs))
  IN [i \in 1..Len(sorted) |->
        LET r == sorted[i]
            tot == PTotalOf(totals, r)
        IN [run_number |-> r.run_number,
            job_name |-> r.job_name,
            tool |-> r.tool,
            phase |-> r.phase,
            build_s |-> Fmt3(r.duration_s),
            job_total_s |-> IF IsFloat(tot) THEN Fmt3(tot) ELSE Blank,
            build_share |-> IF Truthy(tot) /\ GtZero(tot)
                            THEN Fmt3(FDiv(r.duration_s, tot)) ELSE Blank,
            run_id |-> r.run_id]]

\* The fixed (phase, tool) order of the preliminary charts
POrder ==
  << <<"baseline", "none">>,
     <<"first", "cachix">>, <<"second", "cachix">>,
     <<"first", "cache-nix-action">>, <<"second", "cache-nix-action">>,
     <<"first", "magic-nix-cache">>, <<"second", "magic-nix-cache">> >>

\* sorted(match, key=run_number)[0] for the rows of a job with the o-th
\* (phase, tool) of the order; <<>> when there is none
PFirstMatch(rs, name, o) ==
  LET Match(r) == r.job_name = name /\ r.phase = POrder[o][1] /\ r.tool = <<POrder[o][2]>>
      match == SelectSeq(rs, Match)
      sorted == SortedByKey(match, [i \in 1..Len(match) |-> <<KInt(match[i].run_number)>>])
  IN IF match = <<>> THEN <<>> ELSE <<sorted[1]>>

\* The bars of a job in the order of POrder: the first matching rows
PBars(rs, name) == Concat([o \in 1..Len(POrder) |-> PFirstMatch(rs, name, o)])

\* plot_charts evaluates base / r.duration_s with r.duration_s == 0
PSpeedupDividesByZero(rs, name) ==
  LET bars == PBars(rs, name)
  IN /\ Truthy(PComputeBaseline(rs, name))
     /\ \E b \in 1..Len(bars) : bars[b].duration_s = Num(0, 1)

\* plot_charts, once matplotlib is imported: what it does, in order.  For
\* each job: the bars are computed (a division by zero raises), the duration
\* chart is rendered, and with a baseline the speedup chart is rendered.
PlotChartsPlan(rs) ==
  LET names == SortedJobNames(rs)
      Steps(name) ==
        LET bars == PBars(rs, name)
            base == PComputeBaseline(rs, name)
            labels == [b \in 1..Len(bars) |-> <<bars[b].tool, bars[b].phase>>]
        IN IF PSpeedupDividesByZero(rs, name)
           THEN << [what |-> "ZeroDivisionError", file |-> <<"speedup", name>>,
                    labels |-> <<>>, values |-> <<>>] >>
           ELSE << [what |-> "chart", file |-> <<"durations", name>>, labels |-> labels,
                    values |-> [b \in 1..Len(bars) |-> bars[b].duration_s]] >>
                \o (IF Truthy(base)
                    THEN << [what |-> "chart", file |-> <<"speedup", name>>, labels |-> labels,
                             values |-> [b \in 1..Len(bars) |-> FDiv(base, bars[b].duration_s)]] >>
                    ELSE <<>>)
  IN Concat([j \in 1..Len(names) |-> Steps(names[j])])

\* The bars of plot_total_vs_build and plot_job_totals_only: the first
\* matching rows whose job total is known
PBarsWithTotal(rs, totals, name) ==
  LET Known(r) == PTotalOf(totals, r) # NoneV IN SelectSeq(PBars(rs, name), Known)

\* plot_total_vs_build, once matplotlib is imported
PlotTotalVsBuildPlan(rs, totals) ==
  LET names == SortedJobNames(rs)
      Steps(name) ==
        LET bars == PBarsWithTotal(rs, totals, name)
        IN IF bars = <<>> THEN <<>>
           ELSE << [what |-> "chart", file |-> <<"total_vs_build", name>>,
                    labels |-> [b \in 1..Len(bars) |-> <<bars[b].tool, bars[b].phase>>],
                    values |-> [b \in 1..Len(bars) |->
                                  <<PTotalOf(totals, bars[b]), bars[b].duration_s>>]] >>
  IN Concat([j \in 1..Len(names) |-> Steps(names[j])])

\* plot_job_totals_only, once matplotlib is imported
PlotJobTotalsOnlyPlan(rs, totals) ==
  LET names == SortedJobNames(rs)
      Steps(name) ==
        LET bars == PBarsWithTotal(rs, totals, name)
        IN IF bars = <<>> THEN <<>>
           ELSE << [what |-> "chart", file |-> <<"job_totals", name>>,
                    labels |-> [b \in 1..Len(bars) |-> <<bars[b].tool, bars[b].phase>>],
                    values |-> [b \in 1..Len(bars) |-> PTotalOf(totals, bars[b])]] >>
  IN Concat([j \in 1..Len(names) |-> Steps(names[j])])

(***************************************************************************)
(* Inputs and main() of the preliminary variant                            *)
(***************************************************************************)
Cachix == <<"Run ", "cachix/cachix-action", "@v14">>
CacheNix == <<"Run nix-community/", "cache-nix-action", "@v6">>
Magic == <<"Run ", "DeterminateSystems/magic-nix-cache-action", "@main">>

PStepDomain ==
  { StepRec(<<"r2">>, <<"build-zenn">>, <<BuildStep>>, "10.0"),
    StepRec(<<"r2">>, <<"build-zenn">>, <<BuildStep>>, "0"),
    StepRec(<<DQ, "r3", DQ>>, <<"build-zenn">>, <<BuildStep>>, "5.0"),
    StepRec(<<"r3">>, <<"build-zenn">>, <<BuildStep>>, "0"),
    StepRec(<<"r4">>, <<"build-marp">>, <<BuildStep>>, "-5"),
    StepRec(<<"r2">>, <<"build-marp">>, <<BuildStep>>, "nan"),
    StepRec(<<"r5">>, <<"build-zenn">>, <<BuildStep>>, "7.0"),
    StepRec(<<"r9">>, <<"build-zenn">>, <<BuildStep>>, "7.0"),
    StepRec(<<"r3">>, <<"build-zenn">>, <<BuildStep>>, "null"),
    StepRec(<<"r3">>, <<"build-zenn">>, Cachix, "1.0"),
    StepRec(<<"r3">>, <<"build-marp">>, CacheNix, "1.0"),
    StepRec(<<"r5">>, <<"build-zenn">>, Magic, "abc") }

PRunFiles ==
  { << RunRec(<<"r2">>, "2"), RunRec(<<"r3">>, "3"), RunRec(<<DQ, "r4", DQ>>, "4"),
       RunRec(<<"r5">>, "5") >> }

PJobFiles ==
  { << JobRec(<<"r2">>, <<"build-zenn">>, "100.0"), JobRec(<<"r3">>, <<"build-zenn">>, "0"),
       JobRec(<<"r5">>, <<"build-zenn">>, "40.0"), JobRec(<<"r4">>, <<"build-marp">>, "null") >>,
    << JobRec(<<"r3">>, <<"build-zenn">>, "40.0"), JobRec(<<"r2">>, <<"build-marp">>, "nan") >> }

PInit ==
  /\ present = {"steps", "runs", "jobs"}
  /\ steps \in SeqsUpTo(PStepDomain, MaxSteps)
  /\ runs \in PRunFiles
  /\ jobs \in PJobFiles
  /\ selection = <<>>
  /\ pc = "p_start"
  /\ rules = <<>>
  /\ rows = <<>>
  /\ job_totals = <<>>
  /\ written = {}
  /\ detail = <<>>
  /\ speed = <<>>
  /\ combined = <<>>
  /\ summary = <<>>
  /\ figures = {}
  /\ log = {}
  /\ error = NoError
  /\ job = NoJob
  /\ parsed = NoParse
  /\ norm = <<>>

\* rows = load_build_rows(args.steps, args.runs)
PLoadRows ==
  /\ pc = "p_start"
  /\ IF ~({"steps", "runs"} \subseteq present)
     THEN Fail(Uncaught("FileNotFoundError")) /\ UNCHANGED rows
     ELSE IF RunsRaise(runs)
     THEN Fail(Uncaught("ValueError")) /\ UNCHANGED rows
     ELSE pc' = "p_loaded" /\ rows' = PLoadBuildRows(steps, runs) /\ UNCHANGED error
  /\ UNCHANGED <<inputs, rules, job_totals, outputs, parseVars>>

\* rows = filter_target(rows)
PFilter ==
  /\ pc = "p_loaded"
  /\ pc' = "p_filtered"
  /\ rows' = FilterTarget(rows)
  /\ UNCHANGED <<inputs, rules, job_totals, outputs, error, parseVars>>

\* write_detail_csv(rows, args.out_detail)
PWriteDetail ==
  /\ pc = "p_filtered"
  /\ pc' = "p_detail"
  /\ detail' = PWriteDetailCsv(rows)
  /\ written' = written \cup {"detail"}
  /\ UNCHANGED <<inputs, rules, rows, job_totals, speed, combined, summary,
                 figures, log, error, parseVars>>

\* write_speed_csv(rows, args.out_speed)
PWriteSpeed ==
  /\ pc = "p_detail"
  /\ pc' = "p_speed"
  /\ speed' = PWriteSpeedCsv(rows)
  /\ written' = written \cup {"speed"}
  /\ UNCHANGED <<inputs, rules, rows, job_totals, detail, combined, summary,
                 figures, log, error, parseVars>>

\* job_totals = load_job_totals(args.jobs, args.runs)
PLoadTotals ==
  /\ pc = "p_speed"
  /\ IF ~({"jobs", "runs"} \subseteq present)
     THEN Fail(Uncaught("FileNotFoundError")) /\ UNCHANGED job_totals
     ELSE IF RunsRaise(runs)
     THEN Fail(Uncaught("ValueError")) /\ UNCHANGED job_totals
     ELSE pc' = "p_totals" /\ job_totals' = PLoadJobTotals(jobs, runs) /\ UNCHANGED error
  /\ UNCHANGED <<inputs, rules, rows, outputs, parseVars>>

\* write_combined_csv(rows, job_totals, args.out_combined)
PWriteCombined ==
  /\ pc = "p_totals"
  /\ pc' = "p_combined"
  /\ combined' = PWriteCombinedCsv(rows, job_totals)
  /\ written' = written \cup {"combined"}
  /\ UNCHANGED <<inputs, rules, rows, job_totals, detail, speed, summary,
                 figures, log, error, parseVars>>

\* except Exception as e: print(...); return -- the chart function returns
PImportFails(to) ==
  /\ pc' = to
  /\ log' = log \cup {ImportFailed}
  /\ UNCHANGED <<figures, written, error>>

\* The body of a chart function of the preliminary variant, which has no
\* try/except: the steps of the plan run in order; a division by zero raises,
\* and any chart may raise while it is rendered (stop is the step that raises,
\* 0 when none does).  The charts before it are saved.
PExecute(plan, to) ==
  \E stop \in 0..Len(plan) :
    LET done == IF stop = 0 THEN Len(plan) ELSE stop - 1
    IN /\ \A i \in 1..done : plan[i].what = "chart"
       /\ figures' = figures \cup {plan[i] : i \in 1..done}
       /\ written' = written \cup {"figures"}
       /\ UNCHANGED log
       /\ IF stop = 0
          THEN pc' = to /\ UNCHANGED error
          ELSE Fail(Uncaught(IF plan[stop].what = "chart"
                             THEN "ChartError" ELSE "ZeroDivisionError"))

\* plot_charts(rows, args.fig_dir)
PPlotCharts ==
  /\ pc = "p_combined"
  /\ \/ PImportFails("p_charts")
     \/ PExecute(PlotChartsPlan(rows), "p_charts")
  /\ UNCHANGED <<inputs, rules, rows, job_totals, detail, speed, combined, summary, parseVars>>

\* plot_total_vs_build(rows, job_totals, args.fig_dir)
PPlotTotalVsBuild ==
  /\ pc = "p_charts"
  /\ IF ImportFailed \in log
     THEN PImportFails("p_total_vs_build")
     ELSE PExecute(PlotTotalVsBuildPlan(rows, job_totals), "p_total_vs_build")
  /\ UNCHANGED <<inputs, rules, rows, job_totals, detail, speed, combined, summary, parseVars>>

\* plot_job_totals_only(rows, job_totals, args.fig_dir), then the prints
PPlotJobTotalsOnly ==
  /\ pc = "p_total_vs_build"
  /\ IF ImportFailed \in log
     THEN PImportFails("done")
     ELSE PExecute(PlotJobTotalsOnlyPlan(rows, job_totals), "done")
  /\ UNCHANGED <<inputs, rules, rows, job_totals, detail, speed, combined, summary, parseVars>>

PNext ==
  \/ PLoadRows
  \/ PFilter
  \/ PWriteDetail
  \/ PWriteSpeed
  \/ PLoadTotals
  \/ PWriteCombined
  \/ PPlotCharts
  \/ PPlotTotalVsBuild
  \/ PPlotJobTotalsOnly

SpecPrelim == PInit /\ [][PNext]_vars

(***************************************************************************)
(* The preliminary variant on runs of every number of the tables, with     *)
(* cache-action markers among the steps of a run                           *)
(***************************************************************************)
\* The most marker steps of a run.
MaxMarkers == 2
CMarkers == {Cachix, CacheNix, Magic}
CRunNumbers == {"2", "3", "4", "5", "7", "8", "9", "10"}
\* One run record per run number, the run_id being r<number>.
CRuns == SetToSeq({RunRec(<<"r", n>>, n) : n \in CRunNumbers})

CInit ==
  /\ \E a, b \in CRunNumbers, marks \in SeqsUpTo(CMarkers, MaxMarkers) :
       steps = [i \in 1..Len(marks) |->
                  StepRec(<<"r", a>>, <<"build-zenn">>, marks[i], "1.0")]
               \o << StepRec(<<"r", a>>, <<"build-zenn">>, <<BuildStep>>, "10.0"),
                     StepRec(<<"r", b>>, <<"build-zenn">>, <<BuildStep>>, "5.0") >>
  /\ present = {"steps", "runs", "jobs"}
  /\ runs = CRuns
  /\ jobs = << JobRec(<<"r", "2">>, <<"build-zenn">>, "100.0"),
               JobRec(<<"r", "7">>, <<"build-zenn">>, "40.0") >>
  /\ selection = <<>>
  /\ pc = "p_start"
  /\ rules = <<>>
  /\ rows = <<>>
  /\ job_totals = <<>>
  /\ written = {}
  /\ detail = <<>>
  /\ speed = <<>>
  /\ combined = <<>>
  /\ summary = <<>>
  /\ figures = {}
  /\ log = {}
  /\ error = NoError
  /\ job = NoJob
  /\ parsed = NoParse
  /\ norm = <<>>

SpecClassify == CInit /\ [][PNext]_vars

(***************************************************************************)
(* Properties                                                              *)
(***************************************************************************)
\* load_build_rows has run in the main variant
RowsLoaded == pc \in {"loaded", "detail", "speed", "totals", "combined", "summary", "means", "done"}

\* C1: every BuildRow returned by load_build_rows has duration_s > 0.
\* Refuted: float("nan") parses and nan <= 0 is false, so the row is kept.
C1_DurationsPositive ==
  \A i \in 1..Len(rows) : GtZero(rows[i].duration_s)

\* The tool the alias table is documented to give.
C2_ExpectedTool(t) ==
  CASE t = "cachix-action" -> "cachix"
    [] t = "magic-nix-cache-action" -> "magic-nix-cache"
    [] OTHER -> t
\* target and tool are one non-empty segment each (no underscore), the phase
\* is not empty and has no line break
C2_Simple ==
  /\ Len(job.target) = 1 /\ job.target[1] # ""
  /\ Len(job.tool) = 1 /\ job.tool[1] # ""
  /\ job.phase # <<"">>
  /\ \A i \in 1..Len(job.phase) : ~EndsWithNewline(job.phase[i])

\* C2 as claimed: for every non-empty target, tool and phase, parse_job of
\* build_<target>_cachetool_<tool>_phase_<phase> returns exactly (target,
\* normalized tool, phase).  Refuted by a target or tool with an underscore.
C2_ParseReturnsComponents ==
  (pc # "parse" /\ job.target # <<"">> /\ job.tool # <<"">> /\ job.phase # <<"">>)
    => /\ parsed.ok
       /\ <<parsed.target>> = job.target
       /\ Len(job.tool) = 1 /\ parsed.tool = C2_ExpectedTool(job.tool[1])
       /\ parsed.phase = job.phase

\* C2 amended: when target and tool are non-empty and free of underscores and
\* the phase is non-empty and free of line breaks, parse_job returns exactly
\* (target, normalized tool, phase); whatever it returns is a split of the name
\* at cachetool and phase into an underscore-free target and tool and a phase
\* (less a line break that ends the name), otherwise it returns None; and
\* load_build_rows keeps the row of the name exactly when parse_job returned a
\* result.
C2_ParseSimpleComponents ==
  pc # "parse" =>
    /\ C2_Simple =>
         parsed = [ok |-> TRUE, target |-> job.target[1],
                   tool |-> C2_ExpectedTool(job.tool[1]), phase |-> job.phase]
    /\ parsed.ok =>
         \E raw \in Range(job.name),
            ph \in {SubSeq(job.name, k, Len(job.name)) : k \in 1..Len(job.name)} :
           /\ raw # "" /\ parsed.target # "" /\ parsed.phase # <<"">>
           /\ parsed.tool = C2_ExpectedTool(raw)
           /\ parsed.phase = ChopLast(ph)
           /\ job.name = JoinJobName(<<parsed.target>>, <<raw>>, ph)
    /\ ~parsed.ok => parsed = NoParse
    /\ pc = "parse_loaded" => (parsed.ok <=> Len(rows) = 1)

\* C2 witness: an alias is normalized, the phase keeps its underscore and the
\* row of the name is kept
C2_Witness ==
  /\ pc = "parse_loaded"
  /\ C2_Simple
  /\ job.tool = <<"cachix-action">> /\ parsed.tool = "cachix"
  /\ parsed.phase = <<"use-cache", "x">>
  /\ Len(rows) = 1

\* C3: within every (target, tool, phase) group the cycle_index values of the
\* detail artifact, in run_number order, are 1, 2, ..., N.  Refuted: the index
\* is stored per run_id, so two rows of one run in a group share an index.
C3_CycleIndexContiguous ==
  "detail" \in written =>
    \A g \in {<<detail[i].job_name, detail[i].tool, detail[i].phase>> : i \in 1..Len(detail)} :
      LET InGroup(l) == <<l.job_name, l.tool, l.phase>> = g
          lines == SelectSeq(detail, InGroup)
      IN \A i \in 1..Len(lines) : lines[i].cycle_index = i

\* The sum of the durations of the rows whose indices are in S.
RECURSIVE C4_SumAt(_, _)
C4_SumAt(rs, S) ==
  IF S = {} THEN Num(0, 1)
  ELSE LET i == CHOOSE x \in S : \A y \in S : x <= y
       IN FAdd(rs[i].duration_s, C4_SumAt(rs, S \ {i}))
\* The indices of the baseline rows of a job.
C4_BaseRows(job_name) ==
  {i \in 1..Len(rows) : /\ rows[i].job_name = job_name
                        /\ rows[i].tool = "none"
                        /\ rows[i].phase = <<"generate-cache">>}
\* The speedup line a row is to have.
C4_Line(r) ==
  LET base == C4_BaseRows(r.job_name)
  IN [job_name |-> r.job_name, tool |-> r.tool, phase |-> r.phase,
      run_number |-> r.run_number, duration_s |-> Fmt3(r.duration_s),
      speedup_vs_baseline |->
        IF base = {} THEN Blank
        ELSE Fmt3(FDiv(FDiv(C4_SumAt(rows, base), Num(Cardinality(base), 1)),
                       r.duration_s))]

C5_Listed == {StripQuotes(selection[i].run_id) : i \in 1..Len(selection)}
\* A step record that is valid apart from the whitelist: build step marker,
\* positive duration, known run number, parseable job name.
C5_Valid(s) ==
  /\ s.step_name = BuildStep
  /\ GtZero(ParseFloat(s.duration_s))
  /\ \E i \in 1..Len(runs) : RunKey(runs[i]) = StripQuotes(s.run_id)
  /\ JobNameMatches(s.job_name)
C5_ValidListed(s) == C5_Valid(s) /\ StripQuotes(s.run_id) \in C5_Listed
C5_Positive(r) == GtZero(r.duration_s)
\* The whitelist with the run numbers and notes taken out.
C5_Scrubbed == [i \in 1..Len(selection) |-> SelRec(selection[i].run_id, "", "")]

\* C5: the rows of positive duration are, in order, the valid step records
\* whose run_id, quotes stripped, is the run_id of a whitelist entry; an empty
\* whitelist gives no row; and the rows and every artifact are those of the
\* whitelist without its run numbers and notes.
C5_WhitelistFilter ==
  RowsLoaded =>
    LET pos == SelectSeq(rows, C5_Positive)
        exp == SelectSeq(steps, C5_ValidListed)
        rows0 == LoadBuildRows(steps, runs, AllowedRuns(ReadSelectionCsv(C5_Scrubbed)))
    IN /\ Len(pos) = Len(exp)
       /\ \A i \in 1..Len(pos) :
            /\ pos[i].run_id = StripQuotes(exp[i].run_id)
            /\ pos[i].job_name_raw = exp[i].job_name
            /\ pos[i].duration_s = ParseFloat(exp[i].duration_s)
       /\ (selection = <<>> => rows = <<>>)
       /\ rows = rows0
       /\ pc = "summary" =>
            /\ detail = WriteDetailCsv(rows0)
            /\ speed = WriteSpeedCsv(rows0)
            /\ combined = WriteCombinedCsv(rows0, job_totals)
            /\ summary = WriteSummaryCsv(rows0, job_totals)

\* C5 witness: the whitelist gives run r2 a run number other than the 6 of the
\* run record, the row of r2 is in the outputs under 6, and a valid step of a
\* run that is not listed is left out
C5_Witness ==
  /\ pc = "summary"
  /\ \E i \in 1..Len(selection) :
       /\ StripQuotes(selection[i].run_id) = <<"r2">>
       /\ selection[i].run_number # "6"
  /\ \E k \in 1..Len(detail) : detail[k].run_number = 6
  /\ \E i \in 1..Len(steps) : C5_Valid(steps[i]) /\ ~C5_ValidListed(steps[i])

\* Step records without a duration, valid otherwise.
C6_NullRecords ==
  { StepRec(<<"r1">>, ZennNone, BuildStep, d) : d \in {"", "null"} }
\* The rows load_build_rows returns for the given step records.
C6_Rows(step_rows) == LoadBuildRows(step_rows, runs, AllowedRuns(rules))
\* The four artifacts as written from the given rows.
C6_Artifacts(rs) ==
  LET totals == LoadJobTotals(jobs)
  IN <<WriteDetailCsv(rs), WriteSpeedCsv(rs), WriteCombinedCsv(rs, totals),
       WriteSummaryCsv(rs, totals)>>

\* C6: a record whose duration_s is "null" or empty, added anywhere in the step
\* input, leaves the detail, speedup, combined and summary artifacts as they
\* are without it: the rows loaded with the record are the rows loaded without
\* it, and the artifacts are those written from these rows.
C6_NullDurationIgnored ==
  pc = "summary" =>
    /\ \A nr \in C6_NullRecords, p \in 1..(Len(steps) + 1) :
         C6_Rows(InsertAt(steps, p, nr)) = rows
    /\ C6_Artifacts(C6_Rows(steps)) = <<detail, speed, combined, summary>>

\* C6 witness: artifacts with data rows, from a step input that itself holds a
\* record of null duration among valid ones
C6_Witness ==
  /\ pc = "summary"
  /\ Len(detail) >= 2 /\ Len(summary) >= 1
  /\ \E i \in 1..Len(steps) : steps[i].duration_s = "null"

\* C7: when one of the four input files is absent at start, the run never
\* classifies a row and never writes an artifact or a figure: it is before the
\* check of the inputs or has ended with FileNotFoundError, and it does end;
\* and no run ends with FileNotFoundError after a write.
C7_MissingInputEndsBeforeOutput ==
  /\ present # AllFiles =>
       /\ pc \in {"start", "selected", "failed"}
       /\ rows = <<>> /\ job_totals = <<>>
       /\ written = {} /\ figures = {}
       /\ detail = <<>> /\ speed = <<>> /\ combined = <<>> /\ summary = <<>>
       /\ pc = "failed" => error.type = "FileNotFoundError"
       /\ pc # "failed" => ENABLED (ReadSelection \/ CheckInputs)
  /\ error.type = "FileNotFoundError" => written = {} /\ figures = {}

\* C7 witness: the whitelist is there, the job file is not, and the run has
\* ended with the error
C7_Witness ==
  /\ pc = "failed"
  /\ "selection" \in present /\ "jobs" \notin present
  /\ error.type = "FileNotFoundError"

\* C8: the error of a run with absent input files lists exactly the absent
\* files and carries the remediation hint.  Refuted when the whitelist file is
\* absent: read_selection_csv raises first, naming only the whitelist path.
C8_MessageListsMissing ==
  pc = "failed" =>
    /\ Range(error.listed) = AllFiles \ present
    /\ error.hint

\* C9: in the preliminary variant a chart that raises while it is rendered is
\* logged and the run ends normally with the detail, speedup and combined
\* artifacts written.  Refuted: plot_charts, plot_total_vs_build and
\* plot_job_totals_only render outside any try, so the exception ends the run.
C9_ChartFailureNonFatal ==
  /\ error.type # "ChartError"
  /\ pc \in {"done", "failed"} => {"detail", "speed", "combined"} \subseteq written

\* C10: in the preliminary variant no stage raises on a zero denominator, and
\* build_share is blank exactly when the job total of the row is missing or
\* not greater than 0.  Refuted: plot_charts divides the baseline by a row
\* duration of 0, which load_build_rows of this variant lets through.
C10_NotComputableNeverRaises ==
  /\ error.type # "ZeroDivisionError"
  /\ "combined" \in written =>
       \A k \in 1..Len(combined) :
         LET key == <<combined[k].run_id, combined[k].job_name>>
         IN combined[k].build_share = Blank
              <=> ~(key \in DOMAIN job_totals /\ GtZero(job_totals[key]))

\* The indices of the rows with the given (job_name, tool, phase) key.
C11_Group(key) == {i \in 1..Len(rows) : <<rows[i].job_name, rows[i].tool, rows[i].phase>> = key}
\* The sum of the squares of the durations of the rows whose indices are in S.
RECURSIVE C11_SumSqAt(_)
C11_SumSqAt(S) ==
  IF S = {} THEN Num(0, 1)
  ELSE LET i == CHOOSE x \in S : \A y \in S : x <= y
       IN FAdd(FMul(rows[i].duration_s, rows[i].duration_s), C11_SumSqAt(S \ {i}))
\* The sample variance of the durations of the rows in S (two or more):
\* (sum of squares - (sum)^2 / n) / (n - 1)
C11_Variance(S) ==
  LET n == Num(Cardinality(S), 1)
      sum == C4_SumAt(rows, S)
  IN FDiv(FSub(C11_SumSqAt(S), FDiv(FMul(sum, sum), n)), Num(Cardinality(S) - 1, 1))

\* C11: the summary artifact has exactly one line per (job_name, tool, phase)
\* key of the rows; its n is the number of rows of the key, build_mean_s their
\* arithmetic mean, and build_std_s the sample standard deviation (divisor
\* n - 1) when n >= 2 and 0.000 when n = 1; no line has n = 0 or a blank mean
\* or deviation.
C11_SummaryStatistics ==
  pc = "summary" =>
    /\ \A i \in 1..Len(rows) : \E g \in 1..Len(summary) :
         <<summary[g].job_name, summary[g].tool, summary[g].phase>>
           = <<rows[i].job_name, rows[i].tool, rows[i].phase>>
    /\ \A g, h \in 1..Len(summary) :
         <<summary[g].job_name, summary[g].tool, summary[g].phase>>
           = <<summary[h].job_name, summary[h].tool, summary[h].phase>> => g = h
    /\ \A g \in 1..Len(summary) :
         LET S == C11_Group(<<summary[g].job_name, summary[g].tool, summary[g].phase>>)
             n == Cardinality(S)
         IN /\ n >= 1
            /\ summary[g].n = n
            /\ summary[g].build_mean_s = Fmt3(FDiv(C4_SumAt(rows, S), Num(n, 1)))
            /\ summary[g].build_std_s =
                 IF n = 1 THEN [k |-> "dec", m |-> 0] ELSE Fmt3(FSqrt(C11_Variance(S)))
            /\ summary[g].build_mean_s # Blank /\ summary[g].build_std_s # Blank

\* C11 witness: a group of the two durations 10.0 and 20.0 (mean 15.000,
\* deviation sqrt(50) = 7.071) beside a group of one row (deviation 0.000)
C11_Witness ==
  /\ pc = "summary"
  /\ \E g, h \in 1..Len(summary) :
       /\ summary[g].n = 2
       /\ summary[g].build_mean_s = [k |-> "dec", m |-> 15000]
       /\ summary[g].build_std_s = [k |-> "dec", m |-> 7071]
       /\ summary[h].n = 1
       /\ summary[h].build_std_s = [k |-> "dec", m |-> 0]

\* The canonical tool names.
C12_Canonical == {"none", "cachix", "cache-nix-action", "magic-nix-cache"}

\* C12: normalizing a second time and any further time changes nothing; a
\* canonical name stays itself; the aliases cachix-action and
\* magic-nix-cache-action give cachix and magic-nix-cache however often
\* normalization is applied; an unknown name passes through; and the tool
\* parse_job returns is the normalization of the raw tool.
C12_NormalizeIdempotent ==
  /\ \A i \in 2..Len(norm) :
       /\ norm[i] = norm[2]
       /\ norm[1] \in C12_Canonical => norm[i] = norm[1]
       /\ norm[1] = "cachix-action" => norm[i] = "cachix"
       /\ norm[1] = "magic-nix-cache-action" => norm[i] = "magic-nix-cache"
       /\ norm[1] \in {"phase", ""} => norm[i] = norm[1]
  /\ (parsed.ok /\ Len(norm) >= 2) => parsed.tool = norm[2]

\* C12 witness: the alias magic-nix-cache-action normalized MaxApply + 1
\* times, and parse_job's tool for it
C12_Witness ==
  /\ Len(norm) = MaxApply + 1
  /\ norm[1] = "magic-nix-cache-action"
  /\ norm[Len(norm)] = "magic-nix-cache"
  /\ parsed.ok /\ parsed.tool = "magic-nix-cache"

\* A step record that load_build_rows accepts: build step marker, a duration
\* that parses and is not <= 0, a run record, a whitelisted run, a job name of
\* the pattern.
C13_Accepted(s) ==
  /\ s.step_name = BuildStep
  /\ IsFloat(ParseFloat(s.duration_s)) /\ ~LeZero(ParseFloat(s.duration_s))
  /\ \E j \in 1..Len(runs) : RunKey(runs[j]) = StripQuotes(s.run_id)
  /\ StripQuotes(s.run_id) \in C5_Listed
  /\ JobNameMatches(s.job_name)
\* The detail line of an accepted step record, less its cycle_index.
C13_Line(s) ==
  LET js == {j \in 1..Len(runs) : RunKey(runs[j]) = StripQuotes(s.run_id)}
  IN [run_number |-> ParseInt(runs[Max(js)].run_number),
      job_name |-> <<s.job_name[2], "build">>,
      tool |-> C2_ExpectedTool(s.job_name[4]),
      phase |-> ChopLast(SubSeq(s.job_name, 6, Len(s.job_name))),
      duration_s |-> Fmt3(ParseFloat(s.duration_s)),
      run_id |-> StripQuotes(s.run_id)]
C13_Fields(l) ==
  [run_number |-> l.run_number, job_name |-> l.job_name, tool |-> l.tool,
   phase |-> l.phase, duration_s |-> l.duration_s, run_id |-> l.run_id]
C13_ScenarioStep == StepRec(<<"r1">>, ZennNone, BuildStep, "10.0")
C13_ScenarioLine ==
  [run_number |-> 5, job_name |-> <<"zenn", "build">>, tool |-> "none",
   phase |-> <<"generate-cache">>, cycle_index |-> 1,
   duration_s |-> [k |-> "dec", m |-> 10000], run_id |-> <<"r1">>]

\* C13: the detail artifact has exactly one line per accepted step record, with
\* the run_number of its run record, job_name <target>_build, the normalized
\* tool, the phase, the duration to 3 decimals and the run_id, and with its
\* cycle_index, the position of the line among the lines of its group; the
\* scenario of one step of run r1 gives the one line (5, zenn_build, none,
\* generate-cache, 1, 10.000, r1).  Refuted in the cycle_index: two rows of one
\* run in a group get the same index.
C13_DetailRows ==
  pc = "detail" =>
    LET acc == SelectSeq(steps, C13_Accepted)
    IN /\ Len(detail) = Len(acc)
       /\ \A i \in 1..Len(acc) : \E k \in 1..Len(detail) : C13_Fields(detail[k]) = C13_Line(acc[i])
       /\ \A k \in 1..Len(detail) :
            /\ Cardinality({k2 \in 1..Len(detail) : C13_Fields(detail[k2]) = C13_Fields(detail[k])})
                 = Cardinality({i \in 1..Len(acc) : C13_Line(acc[i]) = C13_Fields(detail[k])})
            /\ detail[k].cycle_index =
                 Cardinality({k2 \in 1..k :
                    <<detail[k2].job_name, detail[k2].tool, detail[k2].phase>>
                      = <<detail[k].job_name, detail[k].tool, detail[k].phase>>})
       /\ (steps = <<C13_ScenarioStep>> /\ runs = RunsR1 /\ selection = SelR1)
            => detail = <<C13_ScenarioLine>>

\* A positive duration written as the artifact field f.
C14_PositiveField(f) ==
  \E i \in 1..Len(steps) :
    /\ GtZero(ParseFloat(steps[i].duration_s))
    /\ f = Fmt3(ParseFloat(steps[i].duration_s))

\* C14: in the preliminary variant no row of a zero, negative or unparseable
\* duration is returned by load_build_rows or filter_target or written to the
\* detail, speedup or combined artifact.  Refuted: load_build_rows of this
\* variant has no test of duration <= 0.
C14_NonPositiveExcluded ==
  /\ \A i \in 1..Len(rows) : GtZero(rows[i].duration_s)
  /\ \A k \in 1..Len(detail) : C14_PositiveField(detail[k].duration_s)
  /\ \A k \in 1..Len(speed) : C14_PositiveField(speed[k].duration_s)
  /\ \A k \in 1..Len(combined) : C14_PositiveField(combined[k].build_s)

\* The sort keys the artifacts are to be ordered by.
C15_DetailKey(l) == <<KStr(l.job_name), KStr(<<l.tool>>), KStr(l.phase), KInt(l.run_number)>>
C15_CombinedKey(l) == <<KStr(l.job_name), KInt(l.run_number), KStr(<<l.tool>>)>>
C15_SpeedKey(l) == <<KStr(l.job_name), KInt(l.run_number), KStr(<<l.tool>>), KStr(l.phase)>>
C15_SummaryKey(l) == <<KStr(l.job_name), KStr(<<l.tool>>), KStr(l.phase)>>
\* Each key is not greater than the next.
C15_NonDecreasing(keys) ==
  \A i \in 1..(Len(keys) - 1) : KeyCmp(keys[i], keys[i + 1]) <= 0
\* What tells the rows of one key apart: the run_id and the written duration.
C15_RowMark(r) == <<r.run_id, Fmt3(r.duration_s)>>

\* C15: detail lines are in non-decreasing order of (job_name, tool, phase,
\* run_number), combined lines of (job_name, run_number, tool), speedup lines
\* of (job_name, run_number, tool, phase), summary lines of (job_name, tool,
\* phase); the lines of one key are in the order of their rows, which is the
\* order of the step input.
C15_RowOrdering ==
  pc = "summary" =>
    /\ C15_NonDecreasing([k \in 1..Len(detail) |-> C15_DetailKey(detail[k])])
    /\ C15_NonDecreasing([k \in 1..Len(combined) |-> C15_CombinedKey(combined[k])])
    /\ C15_NonDecreasing([k \in 1..Len(speed) |-> C15_SpeedKey(speed[k])])
    /\ \A k \in 1..(Len(summary) - 1) :
         KeyCmp(C15_SummaryKey(summary[k]), C15_SummaryKey(summary[k + 1])) < 0
    /\ \A i \in 1..Len(rows) :
         LET DSame(l) == C15_DetailKey(l) = C15_DetailKey(rows[i])
             CSame(l) == C15_CombinedKey(l) = C15_CombinedKey(rows[i])
             SSame(l) == C15_SpeedKey(l) = C15_SpeedKey(rows[i])
             dl == SelectSeq(detail, DSame)
             dr == SelectSeq(rows, DSame)
             cl == SelectSeq(combined, CSame)
             cr == SelectSeq(rows, CSame)
             sl == SelectSeq(speed, SSame)
             sr == SelectSeq(rows, SSame)
         IN /\ [k \in 1..Len(dl) |-> <<dl[k].run_id, dl[k].duration_s>>]
                 = [k \in 1..Len(dr) |-> C15_RowMark(dr[k])]
            /\ [k \in 1..Len(cl) |-> <<cl[k].run_id, cl[k].build_s>>]
                 = [k \in 1..Len(cr) |-> C15_RowMark(cr[k])]
            /\ [k \in 1..Len(sl) |-> sl[k].duration_s]
                 = [k \in 1..Len(sr) |-> Fmt3(sr[k].duration_s)]
    /\ \A i, j \in 1..Len(rows) :
         (i < j) => \E a, b \in 1..Len(steps) :
            /\ a < b
            /\ rows[i].job_name_raw = steps[a].job_name /\ rows[i].run_id = StripQuotes(steps[a].run_id)
            /\ rows[i].duration_s = ParseFloat(steps[a].duration_s)
            /\ rows[j].job_name_raw = steps[b].job_name /\ rows[j].run_id = StripQuotes(steps[b].run_id)
            /\ rows[j].duration_s = ParseFloat(steps[b].duration_s)

\* C15 witness: step input in an order other than the sorted one (a none row
\* before the cachix row), and two rows that tie on every key (run r1, job
\* zenn/none, durations nan and 10.0) written in input order
C15_Witness ==
  /\ pc = "summary"
  /\ Len(rows) = 3
  /\ rows[1].tool = "none" /\ rows[1].duration_s = NaN /\ rows[1].run_number = 5
  /\ rows[2].tool = "cachix"
  /\ rows[3].tool = "none" /\ rows[3].duration_s = Num(10, 1) /\ rows[3].run_number = 5
  /\ detail[1].tool = "cachix"
  /\ detail[2].duration_s = [k |-> "nan", m |-> 0]
  /\ detail[3].duration_s = [k |-> "dec", m |-> 10000]

\* The tool and the phase of the static tables for a run number of the set.
C16_Tool(n) ==
  CASE n = 2 -> "none"
    [] n \in {3, 4} -> "cachix"
    [] n \in {7, 8} -> "cache-nix-action"
    [] n \in {9, 10} -> "magic-nix-cache"
C16_Phase(n) ==
  CASE n = 2 -> "baseline"
    [] n \in {3, 7, 9} -> "first"
    [] n \in {4, 8, 10} -> "second"
\* A line of an artifact is of a run of the set, with the table's tool and phase.
C16_Classified(l) ==
  /\ l.run_number \in {2, 3, 4, 7, 8, 9, 10}
  /\ l.tool = <<C16_Tool(l.run_number)>>
  /\ l.phase = C16_Phase(l.run_number)
  /\ l.phase # "other"
\* The build steps, with a duration that parses, of the runs of the set.
C16_InSet(s) ==
  /\ s.step_name = <<BuildStep>>
  /\ IsFloat(ParseFloat(s.duration_s))
  /\ \E j \in 1..Len(runs) :
       /\ RunKey(runs[j]) = StripQuotes(s.run_id)
       /\ ParseInt(runs[j].run_number) \in {2, 3, 4, 7, 8, 9, 10}

\* C16: every line of the detail, speedup and combined artifacts and every bar
\* of a chart is of a run whose number is in {2, 3, 4, 7, 8, 9, 10}, has the
\* tool of the static table for that number, whatever markers the steps of
\* the run name, and the phase baseline, first or second of that number; the
\* build steps of those runs, and no others, are the lines.
C16_StaticClassification ==
  /\ \A k \in 1..Len(detail) : C16_Classified(detail[k])
  /\ \A k \in 1..Len(speed) : C16_Classified(speed[k])
  /\ \A k \in 1..Len(combined) : C16_Classified(combined[k])
  /\ \A f \in figures : \A b \in 1..Len(f.labels) :
       /\ f.labels[b][2] \in {"baseline", "first", "second"}
       /\ f.labels[b][1] \in {<<C16_Tool(n)>> : n \in {2, 3, 4, 7, 8, 9, 10}}
  /\ "detail" \in written => Len(detail) = Len(SelectSeq(steps, C16_InSet))
  /\ "speed" \in written => Len(speed) = Len(detail)
  /\ "combined" \in written => Len(combined) = Len(detail)

\* C16 witness: the steps of run 7 name the cachix and the magic-nix-cache
\* action; its row is written with cache-nix-action and first, and the row of
\* run 5 is in no artifact
C16_Witness ==
  /\ pc = "done"
  /\ \E i, j \in 1..Len(steps) :
       /\ steps[i].run_id = <<"r", "7">> /\ steps[i].step_name = Cachix
       /\ steps[j].run_id = <<"r", "7">> /\ steps[j].step_name = Magic
  /\ \E i \in 1..Len(steps) : steps[i].run_id = <<"r", "5">>
  /\ detail = << [run_number |-> 7, job_name |-> <<"build-zenn">>,
                  tool |-> <<"cache-nix-action">>, phase |-> "first",
                  duration_s |-> [k |-> "dec", m |-> 10000], run_id |-> <<"r", "7">>] >>
  /\ Len(speed) = 1 /\ Len(combined) = 1
  /\ figures # {}

\* What identifies a row in the detail and combined artifacts, and in the
\* speedup artifact (which has no run_id).
C17_Mark(run_id, job_name, tool, phase, run_number, dur) ==
  <<run_id, job_name, tool, phase, run_number, dur>>
C17_RowMark(r) ==
  C17_Mark(r.run_id, r.job_name, r.tool, r.phase, r.run_number, Fmt3(r.duration_s))
C17_RowMarkNoId(r) ==
  C17_Mark(<<>>, r.job_name, r.tool, r.phase, r.run_number, Fmt3(r.duration_s))
C17_DetailMarks ==
  [k \in 1..Len(detail) |->
     C17_Mark(detail[k].run_id, detail[k].job_name, detail[k].tool, detail[k].phase,
              detail[k].run_number, detail[k].duration_s)]
C17_CombinedMarks ==
  [k \in 1..Len(combined) |->
     C17_Mark(combined[k].run_id, combined[k].job_name, combined[k].tool, combined[k].phase,
              combined[k].run_number, combined[k].build_s)]
C17_SpeedMarks ==
  [k \in 1..Len(speed) |->
     C17_Mark(<<>>, speed[k].job_name, speed[k].tool, speed[k].phase,
              speed[k].run_number, speed[k].duration_s)]
\* Two sequences hold the same elements, each as often.
C17_SameBag(a, b) ==
  /\ Len(a) = Len(b)
  /\ \A x \in Range(a) \cup Range(b) :
       Cardinality({i \in 1..Len(a) : a[i] = x}) = Cardinality({i \in 1..Len(b) : b[i] = x})
RECURSIVE C17_SumN(_)
C17_SumN(g) == IF g = 0 THEN 0 ELSE summary[g].n + C17_SumN(g - 1)

\* C17: the rows are the accepted step records, one each and no dropped one;
\* every row is exactly once in the detail, the speedup and the combined
\* artifact; the n of the summary lines add up to the number of rows; and the
\* artifacts are those the pipeline writes on any run on these inputs.
C17_RowConservation ==
  pc = "summary" =>
    LET acc == SelectSeq(steps, C13_Accepted)
    IN /\ Len(rows) = Len(acc)
       /\ \A i \in 1..Len(rows) :
            /\ rows[i].run_id = StripQuotes(acc[i].run_id)
            /\ rows[i].job_name_raw = acc[i].job_name
            /\ rows[i].duration_s = ParseFloat(acc[i].duration_s)
       /\ C17_SameBag(C17_DetailMarks, [i \in 1..Len(rows) |-> C17_RowMark(rows[i])])
       /\ C17_SameBag(C17_CombinedMarks, [i \in 1..Len(rows) |-> C17_RowMark(rows[i])])
       /\ C17_SameBag(C17_SpeedMarks, [i \in 1..Len(rows) |-> C17_RowMarkNoId(rows[i])])
       /\ C17_SumN(Len(summary)) = Len(rows)
       /\ C6_Artifacts(C6_Rows(steps)) = <<detail, speed, combined, summary>>

\* C17 witness: three step records, one of them dropped, the two others
\* accepted as rows of different jobs, and two lines in every artifact
C17_Witness ==
  /\ pc = "summary"
  /\ Len(steps) = 3 /\ Len(rows) = 2
  /\ rows[1].job_name # rows[2].job_name
  /\ Len(detail) = 2 /\ Len(speed) = 2 /\ Len(combined) = 2 /\ Len(summary) = 2

====
